---- MODULE Spec2Model ----
(***************************************************************************)
(* Model of gistapi/gistapi.py: the POST /api/v1/search handler `search`   *)
(* and its helper `gists_for_user`.  One behaviour is the processing of    *)
(* one request: the request body is fixed in Init, the upstream (the gist  *)
(* listing endpoint and the raw file URLs) answers nondeterministically    *)
(* each time requests.get is called.                                       *)
(*                                                                         *)
(* Strings that the code takes apart (URLs, patterns, file contents) are   *)
(* sequences of tokens; a URL's "/" is a token of its own, so that         *)
(* str.rsplit('/', 1) is computed and not assumed.                         *)
(***************************************************************************)
EXTENDS Integers, Sequences, FiniteSets, TLC

VARIABLES
    pc,         \* position of the handler
    post_data,  \* request.get_json(): the keys present and their values
    username,   \* local of search (line 83)
    pattern,    \* local of search (line 84)
    gists,      \* local of search (line 87): what gists_for_user returned
    gi,         \* position of the iterator of `for gist in gists`
    gist,       \* loop variable of line 103
    fi,         \* position of the iterator of `for file in ...values()`
    matches,    \* local of search (line 101)
    result,     \* the JSON object handed to jsonify
    exception,  \* the exception that left search unhandled, if any
    listing,    \* what the upstream did on requests.get(gists_url)
    log         \* what the upstream did on each requests.get(raw_url)

vars == <<pc, post_data, username, pattern, gists, gi, gist, fi, matches,
          result, exception, listing, log>>

----------------------------------------------------------------------------
(* Bounds of the model. *)

MaxGists == 2
MaxFiles == 2
MaxLen == 1

----------------------------------------------------------------------------
(* Strings. *)

SeqsUpTo(S, n) == UNION {[1..k -> S] : k \in 0..n}

\* Characters of a pattern: "a" is an ordinary character, "(" opens a group
\* and nothing in this alphabet closes it.
PatternChars == {"a", "("}
TextChars == {"a", "b"}

Patterns == SeqsUpTo(PatternChars, MaxLen)
Texts == SeqsUpTo(TextChars, MaxLen)
Usernames == {"bob"}

Host == <<"https:", "/", "/", "gist.github.com">>
HtmlUrls == { Host \o <<"/", "alice", "/", "abc123">>,
              Host \o <<"/", "def456">>,
              Host \o <<"/", "bob", "/", "0a1b2c">> }

\* re.compile: a "(" that is never closed is rejected with re.error.
ReCompiles(p) == \A i \in 1..Len(p) : p[i] # "("

\* re.search(p, text) for a pattern of ordinary characters: some substring
\* of text equals p (unanchored).
ReSearch(p, text) ==
    \E i \in 1..(Len(text) + 1) :
        /\ i + Len(p) - 1 <= Len(text)
        /\ SubSeq(text, i, i + Len(p) - 1) = p

\* s.rsplit('/', 1): split at the last "/", or the whole string when there
\* is none.
RSplit(s) ==
    LET slashes == {i \in 1..Len(s) : s[i] = "/"}
    IN  IF slashes = {} THEN <<s>>
        ELSE LET i == CHOOSE j \in slashes : \A k \in slashes : k <= j
             IN  <<SubSeq(s, 1, i - 1), SubSeq(s, i + 1, Len(s))>>

\* MatchUrl with a different construction: the requested username takes the place of the
\* owner segment.
MatchUrlReplacingOwner(html_url, user) ==
    LET parts == RSplit(html_url)
        base  == RSplit(parts[1])
    IN  IF base[1][Len(base[1])] = "/"
        THEN parts[1] \o <<"/", user, "/">> \o parts[2]
        ELSE base[1] \o <<"/", user, "/">> \o parts[2]

\* base, gist_id = gist['html_url'].rsplit('/', 1); f'{base}/{username}/{gist_id}'
MatchUrl(html_url, user) ==
    LET parts == RSplit(html_url)
    IN  parts[1] \o <<"/", user, "/">> \o parts[2]

----------------------------------------------------------------------------
(* Values. *)

Keys == {"username", "pattern"}

NoGist == [type |-> "none", html_url |-> <<>>, nfiles |-> 0]
\* Iterating a dict yields its keys: the str "message".
KeyMessage == [type |-> "str", html_url |-> <<>>, nfiles |-> 0]

\* One element of the listing: a gist with its html_url and its files.
GistDicts == [type : {"dict"}, html_url : HtmlUrls, nfiles : 0..MaxFiles]

GistLists ==
    {l \in SeqsUpTo(GistDicts, MaxGists) :
        \A i, j \in 1..Len(l) : i # j => l[i].html_url # l[j].html_url}

Dict(message) == [type |-> "dict", message |-> message, items |-> <<>>]
List(items) == [type |-> "list", message |-> "", items |-> items]
None == [type |-> "none", message |-> "", items |-> <<>>]

\* What the upstream can do when the listing is requested.
ListingOutcomes ==
    {[kind |-> "conn_error", ok |-> FALSE, json |-> None]}
    \cup [kind : {"response"}, ok : {FALSE},
          json : {Dict("Not Found"), Dict("Server Error")}]
    \cup [kind : {"response"}, ok : {TRUE}, json : {Dict("Not Found")}]
    \cup [kind : {"response"}, ok : {TRUE}, json : {List(l) : l \in GistLists}]

NotRequested == [kind |-> "none", ok |-> FALSE, json |-> None]

\* What the upstream can do when a raw file is requested.
FetchOutcomes ==
    {[kind |-> "conn_error", ok |-> FALSE, text |-> <<>>],
     [kind |-> "response", ok |-> FALSE, text |-> <<>>]}
    \cup [kind : {"response"}, ok : {TRUE}, text : Texts]

----------------------------------------------------------------------------
(* gists_for_user *)

\* gists_for_user without its own message for it: the ConnectionError is reported like any
\* other invalid response.
gists_for_user_one_message(outcome) ==
    IF outcome.kind = "conn_error" \/ ~outcome.ok
    THEN Dict("Invalid Response from Github")
    ELSE outcome.json

gists_for_user(outcome) ==
    IF outcome.kind = "conn_error" THEN Dict("Connection Error")
    ELSE IF ~outcome.ok THEN Dict("Invalid Response from Github")
    ELSE outcome.json

----------------------------------------------------------------------------
(* search *)

\* Validation with the tests in the other order: the pattern is looked
\* for first.
ValidationPatternFirst(keys) ==
    IF "pattern" \notin keys THEN "pattern_not_specified"
    ELSE IF "username" \notin keys THEN "user_not_specified"
    ELSE "ok"

\* Validation without the test for the pattern.
ValidationWithoutPattern(keys) ==
    IF "username" \notin keys THEN "user_not_specified"
    ELSE "ok"

\* Lines 73-81: the two membership tests, in the order of the code.
Validation(keys) ==
    IF "username" \notin keys THEN "user_not_specified"
    ELSE IF "pattern" \notin keys THEN "pattern_not_specified"
    ELSE "ok"

NoResult == [status |-> "none"]

Raise(e) ==
    /\ pc' = "raised"
    /\ exception' = e

Return(r) ==
    /\ pc' = "done"
    /\ result' = r

Init ==
    /\ pc = "validate"
    /\ \E keys \in SUBSET Keys, u \in Usernames, p \in Patterns :
         post_data = [keys |-> keys,
                      username |-> IF "username" \in keys THEN u ELSE "",
                      pattern |-> IF "pattern" \in keys THEN p ELSE <<>>]
    /\ username = ""
    /\ pattern = <<>>
    /\ gists = None
    /\ gi = 0
    /\ gist = NoGist
    /\ fi = 0
    /\ matches = <<>>
    /\ result = NoResult
    /\ exception = "none"
    /\ listing = NotRequested
    /\ log = <<>>

\* Lines 71-84: validate the arguments, then read them.
Validate ==
    /\ pc = "validate"
    /\ LET v == Validation(post_data.keys)
       IN  IF v # "ok"
           THEN /\ Return([status |-> v])
                /\ UNCHANGED <<username, pattern, exception>>
           ELSE IF Keys \subseteq post_data.keys
           THEN /\ username' = post_data.username
                /\ pattern' = post_data.pattern
                /\ pc' = "list"
                /\ UNCHANGED <<result, exception>>
           ELSE /\ Raise("KeyError")
                /\ UNCHANGED <<username, pattern, result>>
    /\ UNCHANGED <<post_data, gists, gi, gist, fi, matches, listing, log>>

\* Lines 86-87 and 42-56: gists = gists_for_user(username).
GistsForUser ==
    /\ pc = "list"
    /\ \E outcome \in ListingOutcomes :
         /\ listing' = outcome
         /\ gists' = gists_for_user(outcome)
    /\ pc' = "check_message"
    /\ UNCHANGED <<post_data, username, pattern, gi, gist, fi, matches,
                   result, exception, log>>

\* Lines 90-101: 'message' in gists is a key test on a dict and an element
\* test on a list, whose elements are dicts and never the str 'message'.
CheckMessage ==
    /\ pc = "check_message"
    /\ IF gists.type = "dict" /\ gists.message = "Not Found"
       THEN /\ Return([status |-> "user_not_found"])
            /\ UNCHANGED matches
       ELSE IF gists.type = "dict" /\ gists.message = "Connection Error"
       THEN /\ Return([status |-> "github_connection_error"])
            /\ UNCHANGED matches
       ELSE /\ matches' = <<>>
            /\ pc' = "for_gist"
            /\ UNCHANGED result
    /\ UNCHANGED <<post_data, username, pattern, gists, gi, gist, fi,
                   exception, listing, log>>

\* What `for gist in gists` iterates over: the elements of a list, the keys
\* of a dict.
Iterated(g) == IF g.type = "dict" THEN <<KeyMessage>> ELSE g.items

\* Line 103: the next gist, or the end of the loop.
ForGist ==
    /\ pc = "for_gist"
    /\ IF gi < Len(Iterated(gists))
       THEN /\ gi' = gi + 1
            /\ gist' = Iterated(gists)[gi + 1]
            /\ pc' = "files"
       ELSE /\ pc' = "return"
            /\ UNCHANGED <<gi, gist>>
    /\ UNCHANGED <<post_data, username, pattern, gists, fi, matches, result,
                   exception, listing, log>>

\* Line 109: gist['files'].values(); a str cannot be indexed by 'files'.
Files ==
    /\ pc = "files"
    /\ IF gist.type = "str"
       THEN /\ Raise("TypeError")
            /\ UNCHANGED fi
       ELSE /\ fi' = 0
            /\ pc' = "for_file"
            /\ UNCHANGED exception
    /\ UNCHANGED <<post_data, username, pattern, gists, gi, gist, matches,
                   result, listing, log>>

\* Lines 109-118: the next file of the gist is fetched and searched, or the
\* files of the gist are exhausted.
ForFile ==
    /\ pc = "for_file"
    /\ IF fi < gist.nfiles
       THEN \E outcome \in FetchOutcomes :
              LET entry(kind, matched) ==
                      [gist |-> gi, kind |-> kind, matched |-> matched]
              IN  IF outcome.kind = "conn_error"
                  THEN /\ log' = Append(log, entry("conn_error", FALSE))
                       /\ Raise("ConnectionError")
                       /\ UNCHANGED <<fi, matches>>
                  ELSE IF ~outcome.ok
                  THEN /\ log' = Append(log, entry("not_ok", FALSE))
                       /\ fi' = fi + 1
                       /\ UNCHANGED <<pc, exception, matches>>
                  ELSE IF ~ReCompiles(pattern)
                  THEN /\ log' = Append(log, entry("ok", FALSE))
                       /\ Raise("re.error")
                       /\ UNCHANGED <<fi, matches>>
                  ELSE IF ReSearch(pattern, outcome.text)
                  THEN /\ log' = Append(log, entry("ok", TRUE))
                       /\ matches' =
                            Append(matches, MatchUrl(gist.html_url, username))
                       /\ fi' = fi + 1
                       /\ UNCHANGED <<pc, exception>>
                  ELSE /\ log' = Append(log, entry("ok", FALSE))
                       /\ fi' = fi + 1
                       /\ UNCHANGED <<pc, exception, matches>>
       ELSE /\ pc' = "for_gist"
            /\ UNCHANGED <<fi, matches, exception, log>>
    /\ UNCHANGED <<post_data, username, pattern, gists, gi, gist, result,
                   listing>>

\* Lines 120-125.
ReturnSuccess ==
    /\ pc = "return"
    /\ Return([status |-> "success", username |-> username,
               pattern |-> pattern, matches |-> matches])
    /\ UNCHANGED <<post_data, username, pattern, gists, gi, gist, fi,
                   matches, exception, listing, log>>

Next ==
    \/ Validate
    \/ GistsForUser
    \/ CheckMessage
    \/ ForGist
    \/ Files
    \/ ForFile
    \/ ReturnSuccess

Spec == Init /\ [][Next]_vars

----------------------------------------------------------------------------
(* Vocabulary of the properties. *)

Terminated == pc \in {"done", "raised"}

Statuses == {"user_not_specified", "pattern_not_specified", "user_not_found",
             "github_connection_error", "success"}

Failure(status) == [status |-> status]

Succeeded == pc = "done" /\ result.status = "success"

\* The upstream reported that the account does not exist.
AccountAbsent ==
    /\ listing.kind = "response"
    /\ listing.json.type = "dict"
    /\ listing.json.message = "Not Found"

\* The listing did not produce a list of gists.
ListingFailed ==
    \/ listing.kind = "conn_error"
    \/ listing.kind = "response" /\ (~listing.ok \/ listing.json.type # "list")

ListingSucceeded ==
    listing.kind = "response" /\ listing.ok /\ listing.json.type = "list"

\* The fetches that matched, in the order of the fetches: the k-th entry of
\* matches was appended by the k-th of them.
Matched == SelectSeq(log, LAMBDA e : e.matched)

MatchedGists == {Matched[k].gist : k \in 1..Len(Matched)}

FetchFailed(e) == e.kind \in {"conn_error", "not_ok"}

AliceUrl == Host \o <<"/", "alice", "/", "abc123">>

----------------------------------------------------------------------------
(* C1 *)

\* C1: search never lets a failure escape: it never ends by raising, and
\* when it has ended its result carries one of the concrete statuses.
C1_NoUnhandledFailure ==
    /\ pc # "raised"
    /\ pc = "done" => result.status \in Statuses

(* C2 *)

\* C2: a successful result lists a gist at most once: no entry of matches
\* is repeated, and when exactly one gist has matching files matches has
\* exactly one entry, the constructed URL of that gist.
C2_OneEntryPerGist ==
    Succeeded =>
        /\ \A i, j \in 1..Len(result.matches) :
               i # j => result.matches[i] # result.matches[j]
        /\ \A g \in MatchedGists :
               MatchedGists = {g} =>
                   result.matches =
                       <<MatchUrl(gists.items[g].html_url, username)>>

(* C3 *)

\* C3: when the upstream reports the account absent, search ends with the
\* status user_not_found and a result without a matches field.
C3_AbsentAccountIsUserNotFound ==
    (AccountAbsent /\ Terminated) =>
        /\ pc = "done"
        /\ result.status = "user_not_found"
        /\ "matches" \notin DOMAIN result

(* C4 *)

\* C4 as stated: the username takes the place of the owner segment, so the
\* entry for https://gist.github.com/alice/abc123 searched as bob is
\* https://gist.github.com/bob/abc123.
C4_UsernameReplacesOwner ==
    \A k \in 1..Len(matches) :
        (gists.items[Matched[k].gist].html_url = AliceUrl /\ username = "bob")
            => matches[k] = Host \o <<"/", "bob", "/", "abc123">>

\* C4 amended: the entry is everything of html_url before its last "/",
\* then "/", the username, "/" and the final segment of html_url; the owner
\* segment is kept, so the entry for https://gist.github.com/alice/abc123
\* searched as bob is https://gist.github.com/alice/bob/abc123.
C4_UsernameInsertedBeforeId ==
    \A k \in 1..Len(matches) :
        LET url == gists.items[Matched[k].gist].html_url
            e   == matches[k]
        IN  /\ Len(e) = Len(url) + 2
            /\ SubSeq(e, 1, Len(url) - 2) = SubSeq(url, 1, Len(url) - 2)
            /\ e[Len(e) - 3] = "/"
            /\ e[Len(e) - 2] = username
            /\ e[Len(e) - 1] = "/"
            /\ e[Len(e)] = url[Len(url)]
            /\ (url = AliceUrl /\ username = "bob") =>
                   e = Host \o <<"/", "alice", "/", "bob", "/", "abc123">>

\* A search as bob has ended in success with a match in alice/abc123.
C4_Witness ==
    /\ Succeeded
    /\ username = "bob"
    /\ \E k \in 1..Len(Matched) :
           gists.items[Matched[k].gist].html_url = AliceUrl

(* C5 *)

\* C5: a failed fetch of one file, by a transport failure or by a
\* non-success status, never ends the request with a fault (the pattern
\* being valid).
C5_FetchFailureNotFatal ==
    (ReCompiles(pattern) /\ \E k \in 1..Len(log) : FetchFailed(log[k]))
        => pc # "raised"

(* C6 *)

\* C6: with a pattern that does not compile, and the gists listed, search
\* ends without a fault and with a failure status, however many gists and
\* files there are.
C6_InvalidPatternIsAFailureStatus ==
    (/\ Keys \subseteq post_data.keys
     /\ ~ReCompiles(post_data.pattern)
     /\ ListingSucceeded
     /\ Terminated)
        => /\ pc = "done"
           /\ result.status \in Statuses \ {"success"}

(* C7 *)

\* C7: a request without username ends with exactly the status
\* user_not_specified, whether pattern is present or not.
C7_MissingUsername ==
    ("username" \notin post_data.keys /\ pc # "validate")
        => /\ pc = "done"
           /\ result = Failure("user_not_specified")

\* A request with neither username nor pattern has been answered.
C7_Witness ==
    /\ pc = "done"
    /\ post_data.keys = {}

(* C8 *)

\* C8 as stated: a request without pattern ends with exactly the status
\* pattern_not_specified, whether username is present or not.
C8_MissingPattern ==
    ("pattern" \notin post_data.keys /\ Terminated)
        => /\ pc = "done"
           /\ result = Failure("pattern_not_specified")

\* C8 amended: a request that has username and lacks pattern ends with
\* exactly the status pattern_not_specified.
C8_MissingPatternOnly ==
    (post_data.keys = {"username"} /\ pc # "validate")
        => /\ pc = "done"
           /\ result = Failure("pattern_not_specified")

\* A request with username and without pattern has been answered.
C8_Witness ==
    /\ pc = "done"
    /\ post_data.keys = {"username"}

(* C9 *)

\* C9: when the listing request fails to connect, search ends with exactly
\* the status github_connection_error and fetches no file.
C9_ConnectionError ==
    listing.kind = "conn_error"
        => /\ log = <<>>
           /\ pc \in {"check_message", "done"}
           /\ pc = "done" => result = Failure("github_connection_error")

\* The listing failed to connect and the request has been answered.
C9_Witness ==
    /\ listing.kind = "conn_error"
    /\ pc = "done"

(* C10 *)

\* C10: a request that fails validation issues no upstream request, and a
\* failed listing is followed by no file fetch and no entry into the loop
\* over the gists.
C10_FailuresShortCircuit ==
    /\ ~(Keys \subseteq post_data.keys) =>
           (listing = NotRequested /\ log = <<>>)
    /\ ListingFailed =>
           (log = <<>> /\ gi = 0 /\ pc \notin {"files", "for_file"})

====
